---- MODULE Spec2Model ----
(***************************************************************************)
(* The encrypted configuration store (DatabaseConfig), the access gate     *)
(* (requires_db_config) and the four HTTP handlers of backend/routes.py,   *)
(* run by several server processes that share one working directory.      *)
(*                                                                         *)
(* Files are byte sequences.  A Fernet token is a sequence of cells that   *)
(* ends in a MAC cell binding key and plaintext; a JSON text is the        *)
(* sequence of field names and value characters json.dumps emits.          *)
(* An action is one atomic segment of a handler: it ends at the next       *)
(* access to a shared file.                                                *)
(***************************************************************************)
EXTENDS Integers, Sequences, FiniteSets, TLC

\* ------------------------------------------------------------- bounds
NumInst == 2
NumThreads == 2

Insts == 1..NumInst
Threads == 1..NumThreads

\* the server process a request thread belongs to
InstOf(t) == ((t - 1) % NumInst) + 1

VARIABLES
    keyFile,    \* .env.key: [exists, bytes]
    cfgFile,    \* db_config.encrypted: [exists, bytes]
    denied,     \* the filesystem refuses to open the two files
    ipc,        \* per process: position in DatabaseConfig.__init__
    key,        \* per process: self.key (<<>> before construction)
    pc,         \* per thread: position in the request
    kind,       \* per thread: endpoint of the request
    gateCfg,    \* per thread: config loaded by requires_db_config
    hCfg,       \* per thread: config loaded by the handler itself
    testCfg,    \* per thread: test_config of configure_database
    oldCfg,     \* per thread: what load_config gave when save_config began
    resp,       \* per thread: the response returned to the client
    calls,      \* per thread: log of the collaborator calls of the request
    ioErr,      \* per thread: a file operation of the request failed
    lastSaved   \* config of the last save_config that ran to completion

vars == <<keyFile, cfgFile, denied, ipc, key, pc, kind, gateCfg, hCfg,
          testCfg, oldCfg, resp, calls, ioErr, lastSaved>>

\* ------------------------------------------------------------- values
\* Python's None and the empty dict: both fail "if not config"
None == <<>>

required_fields == <<"DB_USER", "DB_PASSWORD", "DB_HOST", "DB_PORT", "DB_NAME">>
FieldSet == {required_fields[i] : i \in 1..Len(required_fields)}

\* characters of the field values
Chars == {"a", "b", "d", "e", "h", "r", "s", "1"}

R1 == [DB_USER |-> <<"a">>, DB_PASSWORD |-> <<"b">>, DB_HOST |-> <<"h">>,
       DB_PORT |-> <<"1">>, DB_NAME |-> <<"d">>]
R2 == [DB_USER |-> <<"r">>, DB_PASSWORD |-> <<"s", "s">>, DB_HOST |-> <<"h">>,
       DB_PORT |-> <<"1">>, DB_NAME |-> <<"e">>]
Records == {R1, R2}

NoFile == [exists |-> FALSE, bytes |-> <<>>]
File(b) == [exists |-> TRUE, bytes |-> b]

\* a write of data at offset 0 of a file that holds old
WriteAt(old, data) == data \o SubSeq(old, Len(data) + 1, Len(old))

\* ------------------------------------------------------------- json
RECURSIVE DumpFrom(_, _)
DumpFrom(obj, i) ==
    IF i > Len(required_fields) THEN <<>>
    ELSE (IF required_fields[i] \in DOMAIN obj
          THEN <<required_fields[i]>> \o obj[required_fields[i]]
          ELSE <<>>) \o DumpFrom(obj, i + 1)

\* json.dumps of a dict built in required_fields order
JsonDumps(obj) == DumpFrom(obj, 1)

KeyPos(text) == {i \in 1..Len(text) : text[i] \in FieldSet}
ValueEnd(text, i) ==
    LET later == {j \in KeyPos(text) : j > i}
    IN  IF later = {} THEN Len(text)
        ELSE (CHOOSE j \in later : \A m \in later : j <= m) - 1
LastPos(text, f) ==
    CHOOSE i \in KeyPos(text) :
        text[i] = f /\ \A j \in KeyPos(text) : text[j] = f => j <= i

\* json.loads: [ok, val]; ok is FALSE where json.loads raises
JsonLoads(text) ==
    IF \/ Len(text) = 0
       \/ text[1] \notin FieldSet
       \/ \E i \in 1..Len(text) : text[i] \notin FieldSet \cup Chars
    THEN [ok |-> FALSE, val |-> None]
    ELSE [ok |-> TRUE,
          val |-> [f \in {text[i] : i \in KeyPos(text)} |->
                      SubSeq(text, LastPos(text, f) + 1,
                             ValueEnd(text, LastPos(text, f)))]]

\* ------------------------------------------------------------- fernet
\* Fernet(key).encrypt: one cell per plaintext element, then the MAC cell
FernetEncrypt(k, pt) ==
    [i \in 1..(Len(pt) + 1) |->
        IF i <= Len(pt)
        THEN [k |-> k, i |-> i, c |-> pt[i], mac |-> <<>>]
        ELSE [k |-> k, i |-> i, c |-> "MAC", mac |-> pt]]

\* mutant: decryption that does not verify the MAC against the key
FernetDecryptNoAuth(k, tok) ==
    IF Len(tok) > 0 /\ tok[Len(tok)].c = "MAC"
    THEN [ok |-> TRUE, pt |-> tok[Len(tok)].mac]
    ELSE [ok |-> FALSE, pt |-> <<>>]

\* Fernet(key).decrypt: [ok, pt]; ok is FALSE where it raises InvalidToken
FernetDecrypt(k, tok) ==
    IF Len(tok) > 0 /\ tok = FernetEncrypt(k, tok[Len(tok)].mac)
    THEN [ok |-> TRUE, pt |-> tok[Len(tok)].mac]
    ELSE [ok |-> FALSE, pt |-> <<>>]

\* Fernet(key) raises ValueError unless the key is 32 url-safe base64 bytes
ValidKey(k) == Len(k) = 1

\* ------------------------------------------------------------- store
\* DatabaseConfig.load_config: every exception becomes None
load_config(k, file, noaccess) ==
    IF ~file.exists THEN None
    ELSE IF noaccess THEN None
    ELSE LET d == FernetDecrypt(k, file.bytes)
         IN  IF ~d.ok THEN None
             ELSE LET j == JsonLoads(d.pt)
                  IN  IF ~j.ok THEN None ELSE j.val

\* what save_config writes: self.fernet.encrypt(json.dumps(config).encode())
encrypted_data(k, config) == FernetEncrypt(k, JsonDumps(config))

\* ------------------------------------------------------------- collaborators
Call(op, arg) == [op |-> op, arg |-> arg]
\* a boolean as it is written in a call's argument
Flag(b) == IF b THEN <<"true">> ELSE <<"false">>

\* get_db_connection used as "with get_db_connection(config) as connection:
\* <body>": ok says whether engine.connect() succeeds, body is the log of the
\* with-block and bodyExc the exception it raises ("" for none).
\* [exc, log]: the exception that reaches the caller and the calls made.
get_db_connection(config, ok, body, bodyExc) ==
    IF config = None
    THEN [exc |-> "Exception", log |-> <<>>]
    ELSE IF ~ok
    THEN [exc |-> "UnboundLocalError",
          log |-> <<Call("create_engine", config), Call("connect_failed", config)>>]
    ELSE [exc |-> bodyExc,
          log |-> <<Call("create_engine", config), Call("connect", config)>>
                  \o body
                  \o <<Call("close", config), Call("dispose", config)>>]

\* get_schema_from_db: out is what the inspector does: "tables", "empty", "raise"
get_schema_from_db(config, ok, out) ==
    get_db_connection(config, ok, <<Call("inspect", config)>>,
                      IF out = "raise" THEN "SQLAlchemyError" ELSE "")

\* execute_sql_query: out is what connection.execute does: "rows", "raise"
execute_sql_query(query, config, ok, out) ==
    get_db_connection(config, ok, <<Call("execute", query)>>,
                      IF out = "raise" THEN "SQLAlchemyError" ELSE "")

\* ------------------------------------------------------------- responses
Resp(status, tag, code) == [status |-> status, tag |-> tag, code |-> code, sql |-> <<>>]
NoResp == Resp(0, "", "")
\* the gate's answer
NotConfigured == Resp(400, "error", "DB_NOT_CONFIGURED")
\* an exception that left the view function: Flask answers for the handler
Unhandled(exc) == Resp(500, "unhandled", exc)

Gated == {"health", "schema", "convert"}

\* request.get_json() of the configure endpoint
ConfigureBodies ==
    {[shape |-> "null", data |-> None], [shape |-> "number", data |-> None],
     [shape |-> "array", data |-> None], [shape |-> "object", data |-> None],
     [shape |-> "object", data |-> [f \in FieldSet \ {"DB_NAME"} |-> R1[f]]],
     [shape |-> "object",
      data |-> [f \in FieldSet \cup {"EXTRA"} |-> IF f = "EXTRA" THEN <<"e">> ELSE R1[f]]]}
    \cup {[shape |-> "object", data |-> r] : r \in Records}

\* request.get_json() of the convert endpoint: query present or not, execute flag
ConvertBodies ==
    {[shape |-> "null", query |-> FALSE, execute |-> FALSE],
     [shape |-> "number", query |-> FALSE, execute |-> FALSE],
     [shape |-> "object", query |-> FALSE, execute |-> TRUE]}
    \cup {[shape |-> "object", query |-> TRUE, execute |-> e] : e \in BOOLEAN}

\* the SQL text the conversion chain returns, and the safety chain's fix
SqlQuery == <<"Q">>
SuggestedFix == <<"F">>

\* ------------------------------------------------------------- state
Init ==
    /\ keyFile = NoFile
    /\ cfgFile = NoFile
    /\ denied = FALSE
    /\ ipc = [i \in Insts |-> "new"]
    /\ key = [i \in Insts |-> <<>>]
    /\ pc = [t \in Threads |-> "idle"]
    /\ kind = [t \in Threads |-> ""]
    /\ gateCfg = [t \in Threads |-> None]
    /\ hCfg = [t \in Threads |-> None]
    /\ testCfg = [t \in Threads |-> None]
    /\ oldCfg = [t \in Threads |-> None]
    /\ resp = [t \in Threads |-> NoResp]
    /\ calls = [t \in Threads |-> <<>>]
    /\ ioErr = [t \in Threads |-> FALSE]
    /\ lastSaved = None

files == <<keyFile, cfgFile, denied>>
procs == <<ipc, key>>
locals == <<kind, gateCfg, hCfg, testCfg, oldCfg, resp, calls, ioErr>>

\* ------------------------------------------------------------- DatabaseConfig.__init__
\* mutant: the key is derived afresh on every call
key_file_exists_never(file) == FALSE

\* key_file.exists()
key_file_exists(file) == file.exists

\* key_file.exists(), then key_file.read_bytes() and Fernet(self.key)
KeyExists(i) ==
    /\ ipc[i] = "new"
    /\ IF ~key_file_exists(keyFile)
       THEN /\ ipc' = [ipc EXCEPT ![i] = "derive"]
            /\ key' = key
       ELSE IF denied
       THEN /\ ipc' = [ipc EXCEPT ![i] = "io_failed"]
            /\ key' = key
       ELSE IF ~ValidKey(keyFile.bytes)
       THEN /\ ipc' = [ipc EXCEPT ![i] = "key_invalid"]
            /\ key' = key
       ELSE /\ ipc' = [ipc EXCEPT ![i] = "up"]
            /\ key' = [key EXCEPT ![i] = keyFile.bytes]
    /\ UNCHANGED <<files, pc, locals, lastSaved>>

\* the key derived from secrets.token_bytes(32): no two processes draw the same
DerivedKey(i) == <<i>>

\* key_file.write_bytes(key): open for writing truncates or creates the file
KeyOpen(i) ==
    /\ ipc[i] = "derive"
    /\ IF denied
       THEN /\ ipc' = [ipc EXCEPT ![i] = "io_failed"]
            /\ keyFile' = keyFile
       ELSE /\ ipc' = [ipc EXCEPT ![i] = "write"]
            /\ keyFile' = File(<<>>)
    /\ UNCHANGED <<cfgFile, denied, key, pc, locals, lastSaved>>

\* key_file.write_bytes(key): the write; return key; Fernet(self.key)
KeyWrite(i) ==
    /\ ipc[i] = "write"
    /\ keyFile' = File(WriteAt(keyFile.bytes, DerivedKey(i)))
    /\ key' = [key EXCEPT ![i] = DerivedKey(i)]
    /\ ipc' = [ipc EXCEPT ![i] = "up"]
    /\ UNCHANGED <<cfgFile, denied, pc, locals, lastSaved>>

\* the process ends and is started again: main.py runs DatabaseConfig() anew
Restart(i) ==
    /\ ipc[i] \in {"up", "io_failed", "key_invalid"}
    /\ \A t \in Threads : InstOf(t) = i => pc[t] = "idle"
    /\ ipc' = [ipc EXCEPT ![i] = "new"]
    /\ key' = [key EXCEPT ![i] = <<>>]
    /\ UNCHANGED <<files, pc, locals, lastSaved>>

\* ------------------------------------------------------------- requires_db_config
Up(t) == ipc[InstOf(t)] = "up"
Set(f, t, v) == [f EXCEPT ![t] = v]

\* mutant: the configuration is loaded once, when the decorator is applied at
\* import time (no file yet), and kept
gate_config_cached(k, file, noaccess) == load_config(k, NoFile, noaccess)

\* config = db_config.load_config() inside decorated_function: the store is
\* read on every call
gate_config(k, file, noaccess) == load_config(k, file, noaccess)

\* mutant: the gate forgets to return and calls the view function anyway
gate_result_fallthrough(config) ==
    [pc |-> "handler", resp |-> IF config = None THEN NotConfigured ELSE NoResp,
     calls |-> <<Call("handler", None)>>]

\* "if not config: return jsonify(...), 400", else "return f(*args, **kwargs)"
gate_result(config) ==
    IF config = None
    THEN [pc |-> "done", resp |-> NotConfigured, calls |-> <<>>]
    ELSE [pc |-> "handler", resp |-> NoResp, calls |-> <<Call("handler", None)>>]

\* decorated_function, and the call of the view function up to its first
\* file access
Gate(t) ==
    /\ pc[t] = "idle" /\ Up(t)
    /\ \E k \in Gated :
        LET config == gate_config(key[InstOf(t)], cfgFile, denied)
            g == gate_result(config)
        IN  /\ kind' = Set(kind, t, k)
            /\ gateCfg' = Set(gateCfg, t, config)
            /\ ioErr' = Set(ioErr, t, denied /\ cfgFile.exists)
            /\ resp' = Set(resp, t, g.resp)
            /\ calls' = Set(calls, t, g.calls)
            /\ pc' = Set(pc, t, g.pc)
    /\ UNCHANGED <<files, procs, hCfg, testCfg, oldCfg, lastSaved>>

\* ------------------------------------------------------------- health_check
HealthCheck(t) ==
    /\ pc[t] = "handler" /\ kind[t] = "health"
    /\ \E ok \in BOOLEAN :
        LET config == load_config(key[InstOf(t)], cfgFile, denied)
            c == get_db_connection(config, ok, <<>>, "")
        IN  /\ hCfg' = Set(hCfg, t, config)
            /\ ioErr' = Set(ioErr, t, ioErr[t] \/ (denied /\ cfgFile.exists))
            /\ calls' = Set(calls, t, calls[t] \o c.log)
            /\ resp' = Set(resp, t, IF c.exc = ""
                                    THEN Resp(200, "healthy", "")
                                    ELSE Resp(500, "unhealthy", c.exc))
    /\ pc' = Set(pc, t, "done")
    /\ UNCHANGED <<files, procs, kind, gateCfg, testCfg, oldCfg, lastSaved>>

\* ------------------------------------------------------------- get_schema
GetSchema(t) ==
    /\ pc[t] = "handler" /\ kind[t] = "schema"
    /\ \E ok \in BOOLEAN, out \in {"tables", "empty", "raise"} :
        LET config == load_config(key[InstOf(t)], cfgFile, denied)
            s == get_schema_from_db(config, ok, out)
        IN  /\ hCfg' = Set(hCfg, t, config)
            /\ ioErr' = Set(ioErr, t, ioErr[t] \/ (denied /\ cfgFile.exists))
            /\ calls' = Set(calls, t, calls[t] \o s.log)
            /\ resp' = Set(resp, t,
                    IF s.exc # "" THEN Resp(500, "error", s.exc)
                    ELSE IF out = "empty" THEN Resp(500, "error", "Failed to fetch schema")
                    ELSE Resp(200, "success", "schema"))
    /\ pc' = Set(pc, t, "done")
    /\ UNCHANGED <<files, procs, kind, gateCfg, testCfg, oldCfg, lastSaved>>

\* ------------------------------------------------------------- convert_to_sql
\* graph.invoke(initial_state): convert_nl_to_sql_node, then safety_check_node.
\* conv: "ok" or "raise"; safety: "safe", "unsafe" or "raise".
\* [exc, log, is_safe, sql_query, suggested_fix]
graph_invoke(conv, safety) ==
    IF conv = "raise"
    THEN [exc |-> "LLMError", log |-> <<Call("convert_nl_to_sql", None)>>,
          is_safe |-> FALSE, sql_query |-> <<>>, suggested_fix |-> <<>>]
    ELSE IF safety = "raise"
    THEN [exc |-> "LLMError",
          log |-> <<Call("convert_nl_to_sql", None), Call("safety_check", SqlQuery)>>,
          is_safe |-> FALSE, sql_query |-> SqlQuery, suggested_fix |-> <<>>]
    ELSE [exc |-> "",
          log |-> <<Call("convert_nl_to_sql", None), Call("safety_check", SqlQuery),
                    Call("is_safe", Flag(safety = "safe"))>>,
          is_safe |-> (safety = "safe"), sql_query |-> SqlQuery,
          suggested_fix |-> IF safety = "safe" THEN SqlQuery ELSE SuggestedFix]

\* mutant: the generated query is run whenever the request asks for it
should_execute_unchecked(execute, is_safe) == execute

\* if execute and result['is_safe']
should_execute(execute, is_safe) == execute /\ is_safe

\* the try block of convert_to_sql, from the schema fetch on: [resp, log]
convert_body(config, execute, sok, sout, conv, safety, eok, eout) ==
    LET s == get_schema_from_db(config, sok, sout)
        g == graph_invoke(conv, safety)
        x == execute_sql_query(g.sql_query, config, eok, eout)
        e == [exc |-> x.exc,
              log |-> <<Call("execute_sql_query", g.sql_query)>> \o x.log]
        d == <<Call("data.get", Flag(execute))>>
    IN  IF s.exc # "" THEN [resp |-> Resp(500, "error", s.exc), log |-> s.log]
        ELSE IF sout = "empty"
        THEN [resp |-> Resp(500, "error", "Failed to fetch database schema"), log |-> s.log]
        ELSE IF g.exc # "" THEN [resp |-> Resp(500, "error", g.exc), log |-> s.log \o g.log]
        ELSE IF should_execute(execute, g.is_safe) /\ e.exc # ""
        THEN [resp |-> [Resp(500, "error", "Query execution failed")
                            EXCEPT !.sql = g.sql_query],
              log |-> s.log \o g.log \o d \o e.log]
        ELSE [resp |-> [Resp(200, IF g.is_safe THEN "success" ELSE "warning", "")
                            EXCEPT !.sql = IF g.is_safe THEN g.sql_query
                                           ELSE g.suggested_fix],
              log |-> s.log \o g.log \o d
                      \o (IF should_execute(execute, g.is_safe) THEN e.log ELSE <<>>)]

\* convert_body over everything the database and the LLM can do
convert_outcomes(config, execute) ==
    {convert_body(config, execute, sok, sout, conv, safety, eok, eout) :
        sok \in BOOLEAN, sout \in {"tables", "empty", "raise"},
        conv \in {"ok", "raise"}, safety \in {"safe", "unsafe", "raise"},
        eok \in BOOLEAN, eout \in {"rows", "raise"}}

ConvertToSql(t) ==
    /\ pc[t] = "handler" /\ kind[t] = "convert"
    /\ \E data \in ConvertBodies :
        IF data.shape = "null" \/ (data.shape = "object" /\ ~data.query)
        THEN /\ resp' = Set(resp, t, Resp(400, "error", "Missing query in request body"))
             /\ UNCHANGED <<hCfg, calls, ioErr>>
        ELSE IF data.shape # "object"
        THEN /\ resp' = Set(resp, t, Unhandled("TypeError"))
             /\ UNCHANGED <<hCfg, calls, ioErr>>
        ELSE LET config == load_config(key[InstOf(t)], cfgFile, denied)
             IN  \E b \in convert_outcomes(config, data.execute) :
                    /\ hCfg' = Set(hCfg, t, config)
                    /\ ioErr' = Set(ioErr, t, ioErr[t] \/ (denied /\ cfgFile.exists))
                    /\ calls' = Set(calls, t, calls[t] \o b.log)
                    /\ resp' = Set(resp, t, b.resp)
    /\ pc' = Set(pc, t, "done")
    /\ UNCHANGED <<files, procs, kind, gateCfg, testCfg, oldCfg, lastSaved>>

\* ------------------------------------------------------------- configure_database
\* data = request.get_json(); the required_fields check; test_config
ConfigureDatabase(t) ==
    /\ pc[t] = "idle" /\ Up(t)
    /\ kind' = Set(kind, t, "configure")
    /\ \E body \in ConfigureBodies :
        IF body.shape \in {"null", "number"}
        THEN /\ resp' = Set(resp, t, Unhandled("TypeError"))
             /\ pc' = Set(pc, t, "done")
             /\ testCfg' = testCfg
        ELSE IF body.shape = "array" \/ ~(FieldSet \subseteq DOMAIN body.data)
        THEN /\ resp' = Set(resp, t, Resp(400, "error", "Missing required fields"))
             /\ pc' = Set(pc, t, "done")
             /\ testCfg' = testCfg
        ELSE /\ resp' = resp
             /\ pc' = Set(pc, t, "test")
             /\ testCfg' = Set(testCfg, t, [f \in FieldSet |-> body.data[f]])
    /\ UNCHANGED <<files, procs, gateCfg, hCfg, oldCfg, calls, ioErr, lastSaved>>

\* mutant: the connection test sits in its own try/except that only logs
test_passed_ignored(c) == TRUE

\* the try block goes on to save_config only if the with statement raised nothing
test_passed(c) == c.exc = ""

\* with get_db_connection(test_config) as connection: pass
ConfigureTest(t) ==
    /\ pc[t] = "test"
    /\ \E ok \in BOOLEAN :
        LET c == get_db_connection(testCfg[t], ok, <<>>, "")
        IN  /\ calls' = Set(calls, t, calls[t] \o c.log)
            /\ IF ~test_passed(c)
               THEN /\ resp' = Set(resp, t, Resp(400, "error", "Failed to connect to database"))
                    /\ pc' = Set(pc, t, "done")
               ELSE /\ resp' = resp
                    /\ pc' = Set(pc, t, "save_open")
    /\ UNCHANGED <<files, procs, kind, gateCfg, hCfg, testCfg, oldCfg, ioErr, lastSaved>>

\* mutant: mode 'r+b'/'ab+' style open that keeps the old bytes
open_keep(file) == File(file.bytes)

\* open(self.CONFIG_FILE, 'wb'): the file is created or cut to length 0
open_wb(file) == File(<<>>)

\* db_config.save_config(test_config): encrypt, open(CONFIG_FILE, 'wb')
SaveOpen(t) ==
    /\ pc[t] = "save_open"
    /\ calls' = Set(calls, t, Append(calls[t], Call("save_config", testCfg[t])))
    /\ oldCfg' = Set(oldCfg, t, load_config(key[InstOf(t)], cfgFile, FALSE))
    /\ IF denied
       THEN /\ cfgFile' = cfgFile
            /\ ioErr' = Set(ioErr, t, TRUE)
            /\ resp' = Set(resp, t, Resp(400, "error", "Failed to connect to database"))
            /\ pc' = Set(pc, t, "done")
       ELSE /\ cfgFile' = open_wb(cfgFile)
            /\ ioErr' = ioErr
            /\ resp' = resp
            /\ pc' = Set(pc, t, "save_write")
    /\ UNCHANGED <<keyFile, denied, procs, kind, gateCfg, hCfg, testCfg, lastSaved>>

\* f.write(encrypted_data) and the close; the success response
SaveWrite(t) ==
    /\ pc[t] = "save_write"
    /\ cfgFile' = File(WriteAt(cfgFile.bytes, encrypted_data(key[InstOf(t)], testCfg[t])))
    /\ lastSaved' = testCfg[t]
    /\ resp' = Set(resp, t, Resp(200, "success", "saved"))
    /\ pc' = Set(pc, t, "done")
    /\ UNCHANGED <<keyFile, denied, procs, kind, gateCfg, hCfg, testCfg, oldCfg, calls, ioErr>>

\* the response is sent; the thread takes the next request
Finish(t) ==
    /\ pc[t] = "done"
    /\ pc' = Set(pc, t, "idle")
    /\ kind' = Set(kind, t, "")
    /\ gateCfg' = Set(gateCfg, t, None)
    /\ hCfg' = Set(hCfg, t, None)
    /\ testCfg' = Set(testCfg, t, None)
    /\ oldCfg' = Set(oldCfg, t, None)
    /\ resp' = Set(resp, t, NoResp)
    /\ calls' = Set(calls, t, <<>>)
    /\ ioErr' = Set(ioErr, t, FALSE)
    /\ UNCHANGED <<files, procs, lastSaved>>

\* ------------------------------------------------------------- specifications
\* A step that touches no shared file (reading the request, testing the
\* database connection, returning the response) commutes with every step of
\* every other thread, so a thread that has just made one makes its next step
\* before anything else moves: no interleaving of the file accesses is lost.
\* A finished request is seen once, in pc = "done", and then leaves.
Transient == {"test", "save_open", "done"}
Ready == \A u \in Threads : pc[u] \notin Transient

Construct(i) ==
    \/ Ready /\ KeyExists(i)
    \/ Ready /\ KeyOpen(i)
    \/ Ready /\ KeyWrite(i)

Serve(t) ==
    \/ Ready /\ Gate(t)
    \/ Ready /\ HealthCheck(t)
    \/ Ready /\ GetSchema(t)
    \/ Ready /\ ConvertToSql(t)
    \/ Ready /\ ConfigureDatabase(t)
    \/ ConfigureTest(t)
    \/ SaveOpen(t)
    \/ Ready /\ SaveWrite(t)
    \/ Finish(t)

\* processes and request threads interleave freely
Next == (\E i \in Insts : Construct(i)) \/ (\E t \in Threads : Serve(t))

Spec == Init /\ [][Next]_vars

\* one request or one construction at a time: nothing else is under way
Constructing(i) == ipc[i] \in {"derive", "write"}
AloneThread(t) ==
    /\ \A u \in Threads \ {t} : pc[u] = "idle"
    /\ \A i \in Insts : ~Constructing(i)
AloneInst(i) ==
    /\ \A t \in Threads : pc[t] = "idle"
    /\ \A j \in Insts \ {i} : ~Constructing(j)

SeqConstruct(i) ==
    \/ AloneInst(i) /\ KeyExists(i)
    \/ AloneInst(i) /\ KeyOpen(i)
    \/ AloneInst(i) /\ KeyWrite(i)
    \/ AloneInst(i) /\ Restart(i)

SeqServe(t) ==
    \/ AloneThread(t) /\ Gate(t)
    \/ AloneThread(t) /\ HealthCheck(t)
    \/ AloneThread(t) /\ GetSchema(t)
    \/ AloneThread(t) /\ ConvertToSql(t)
    \/ AloneThread(t) /\ ConfigureDatabase(t)
    \/ AloneThread(t) /\ ConfigureTest(t)
    \/ AloneThread(t) /\ SaveOpen(t)
    \/ AloneThread(t) /\ SaveWrite(t)
    \/ AloneThread(t) /\ Finish(t)

NextSeq == (\E i \in Insts : SeqConstruct(i)) \/ (\E t \in Threads : SeqServe(t))

\* sequential execution
SpecSeq == Init /\ [][NextSeq]_vars

\* ------------------------------------------------------------- environment
\* a key no process of the model holds
ForeignKey == <<0>>
Garbage == <<[k |-> <<>>, i |-> 0, c |-> "?", mac |-> <<>>]>>
Truncated(tok) == SubSeq(tok, 1, Len(tok) - 1)

\* what somebody else can leave in place of the configuration file
TamperedFiles ==
    {NoFile, File(<<>>), File(Garbage),
     File(Truncated(encrypted_data(keyFile.bytes, R1))),
     File(encrypted_data(ForeignKey, R1)),
     File(FernetEncrypt(keyFile.bytes, <<"{">>))}

\* the configuration file is deleted or overwritten from outside
Tamper ==
    /\ \A t \in Threads : pc[t] = "idle"
    /\ \E f \in TamperedFiles : cfgFile' = f
    /\ UNCHANGED <<keyFile, denied, procs, pc, locals, lastSaved>>

\* the permissions of the two files change
SetDenied ==
    /\ denied' = ~denied
    /\ UNCHANGED <<keyFile, cfgFile, procs, pc, locals, lastSaved>>

\* f.write(encrypted_data) raises OSError (the disk is full, say) after n bytes
\* went out; the except clause of configure_database answers
SaveWriteFails(t) ==
    /\ pc[t] = "save_write"
    /\ \E n \in 0..(Len(encrypted_data(key[InstOf(t)], testCfg[t])) - 1) :
        cfgFile' = File(WriteAt(cfgFile.bytes,
                        SubSeq(encrypted_data(key[InstOf(t)], testCfg[t]), 1, n)))
    /\ ioErr' = Set(ioErr, t, TRUE)
    /\ resp' = Set(resp, t, Resp(400, "error", "Failed to connect to database"))
    /\ pc' = Set(pc, t, "done")
    /\ UNCHANGED <<keyFile, denied, procs, kind, gateCfg, hCfg, testCfg, oldCfg, calls,
                   lastSaved>>

\* the storage fails under one request at a time
WriteFails == \E t \in Threads : AloneThread(t) /\ SaveWriteFails(t)

NextEnv == NextSeq \/ Tamper \/ SetDenied \/ WriteFails

\* sequential execution in a hostile directory
SpecEnv == Init /\ [][NextEnv]_vars

\* ------------------------------------------------------------- steps and states of a request
\* a step in which thread t runs the load_config of the gate
GateLoads(t) == pc[t] = "idle" /\ pc'[t] # "idle" /\ kind'[t] \in Gated
\* a step in which thread t runs the load_config of a view function
HandlerLoads(t) == pc[t] = "handler" /\ pc'[t] = "done" /\ kind[t] \in {"health", "schema"}

\* the view function of t has run its own load_config
HandlerLoaded(t) ==
    /\ pc[t] = "done" /\ kind[t] \in Gated /\ Len(calls[t]) > 0
    /\ \/ kind[t] \in {"health", "schema"}
       \/ resp[t].code \notin {"Missing query in request body", "TypeError"}

Ops(t) == {calls[t][j].op : j \in 1..Len(calls[t])}

\* ------------------------------------------------------------- C1
\* C1 (atomic visibility): while exactly one save_config is between its open
\* and its write, on a store that held a valid record R_old for the loader's
\* key, a load_config of another thread returns R_old or the record being
\* saved, never None.
C1_AtomicVisibility ==
    [][\A t \in Threads : \A s \in Threads \ {t} :
          ( /\ pc[s] = "save_write"
            /\ oldCfg[s] # None /\ lastSaved = oldCfg[s]
            /\ key[InstOf(t)] = key[InstOf(s)]
            /\ \A u \in Threads \ {t, s} : pc[u] = "idle" )
          => /\ GateLoads(t) => gateCfg'[t] \in {oldCfg[s], testCfg[s]}
             /\ HandlerLoads(t) => hCfg'[t] \in {oldCfg[s], testCfg[s]}]_vars

\* ------------------------------------------------------------- C2
\* C2 (key file never overwritten): once the key file holds key bytes, no
\* step changes the file.
C2_KeyNeverOverwritten ==
    [][keyFile.bytes # <<>> => keyFile' = keyFile]_vars

\* ------------------------------------------------------------- C3
\* C3 (gate short-circuit): a gated request whose gate loaded None ends at
\* once with status 400 and code DB_NOT_CONFIGURED; the view function is not
\* called and no collaborator (database, LLM) is used.
C3_GateShortCircuit ==
    \A t \in Threads :
        (pc[t] # "idle" /\ kind[t] \in Gated /\ gateCfg[t] = None)
        => /\ pc[t] = "done"
           /\ resp[t].status = 400 /\ resp[t].code = "DB_NOT_CONFIGURED"
           /\ resp[t].tag = "error"
           /\ calls[t] = <<>>

\* a gated request refused although the configuration file exists and is not empty
C3_Witness ==
    \E t \in Threads :
        /\ pc[t] = "done" /\ kind[t] = "convert" /\ gateCfg[t] = None
        /\ cfgFile.exists /\ cfgFile.bytes # <<>>
        /\ resp[t].code = "DB_NOT_CONFIGURED"

\* ------------------------------------------------------------- C4
\* C4 (gate pass-through): the view function works on the record the gate
\* loaded.
C4_GatePassThrough ==
    \A t \in Threads : HandlerLoaded(t) => hCfg[t] = gateCfg[t]

\* ------------------------------------------------------------- C5
\* C5 (last save wins): in a sequential execution, whenever no save_config is
\* under way and at least one has completed, load_config of every constructed
\* store returns exactly the record of the last completed save_config.
C5_LastSaveWins ==
    ((\A t \in Threads : pc[t] # "save_write") /\ lastSaved # None)
    => \A i \in Insts :
          ipc[i] = "up" => load_config(key[i], cfgFile, denied) = lastSaved

\* a save_config has just replaced a different, longer record
C5_Witness ==
    \E t \in Threads :
        /\ pc[t] = "done" /\ kind[t] = "configure" /\ resp[t].status = 200
        /\ oldCfg[t] = R2 /\ lastSaved = R1
        /\ load_config(key[InstOf(t)], cfgFile, denied) = R1

\* ------------------------------------------------------------- C6
\* C6 (fail-safe load): the gate's load_config gives a record only if the
\* configuration file is the intact token of that record under the store's
\* key, gives that record if the file is such a token and can be read, and
\* gives None for a missing, empty, garbage, truncated, foreign-key or
\* non-JSON file; the request is answered, nothing is raised.
C6_FailSafeLoad ==
    \A t \in Threads :
        (pc[t] # "idle" /\ kind[t] \in Gated)
        => /\ gateCfg[t] # None
                => /\ gateCfg[t] \in Records
                   /\ cfgFile = File(FernetEncrypt(key[InstOf(t)], JsonDumps(gateCfg[t])))
           /\ \A r \in Records :
                (cfgFile = File(FernetEncrypt(key[InstOf(t)], JsonDumps(r))) /\ ~ioErr[t])
                => gateCfg[t] = r
           /\ (gateCfg[t] = None /\ pc[t] = "done") => resp[t].tag = "error"

\* the gate has answered a request over a configuration file of garbage bytes
C6_Witness ==
    \E t \in Threads :
        /\ pc[t] = "done" /\ kind[t] \in Gated
        /\ cfgFile = File(Garbage)
        /\ gateCfg[t] = None /\ resp[t].code = "DB_NOT_CONFIGURED"

\* ------------------------------------------------------------- C7
\* C7 (save only after a successful connection test): every save_config of a
\* request comes after a successful connect of the same request to the very
\* record that is saved, and a request whose connect failed never saves.
C7_SaveAfterTest ==
    \A t \in Threads :
        /\ \A j \in 1..Len(calls[t]) :
              calls[t][j].op = "save_config"
              => /\ \E m \in 1..(j - 1) :
                       calls[t][m].op = "connect" /\ calls[t][m].arg = calls[t][j].arg
                 /\ calls[t][j].arg = testCfg[t]
        /\ "connect_failed" \in Ops(t) => "save_config" \notin Ops(t)
        /\ pc[t] = "save_write" => "save_config" \in Ops(t)

\* a configure request has tested the connection and written the record
C7_Witness ==
    \E t \in Threads :
        /\ pc[t] = "done" /\ kind[t] = "configure" /\ resp[t].status = 200
        /\ "connect" \in Ops(t) /\ "save_config" \in Ops(t)
        /\ lastSaved = testCfg[t]

\* ------------------------------------------------------------- C8
\* C8 (no caching in the gate): in a sequential execution, a gated request
\* that starts after a save_config has completed is let through by the gate
\* with the record of the last completed save_config, and its view function
\* loads that same record.
C8_GateReloads ==
    \A t \in Threads :
        (pc[t] # "idle" /\ kind[t] \in Gated /\ lastSaved # None)
        => /\ gateCfg[t] = lastSaved
           /\ resp[t].code # "DB_NOT_CONFIGURED"
           /\ HandlerLoaded(t) => hCfg[t] = lastSaved

\* a gated request has run, gate and view function, on the record of the last
\* completed save_config
C8_Witness ==
    \E t \in Threads :
        /\ HandlerLoaded(t) /\ kind[t] = "schema"
        /\ lastSaved = R2 /\ gateCfg[t] = R2 /\ hCfg[t] = R2
        /\ resp[t].status = 200

\* ------------------------------------------------------------- C9
\* C9 (storage failures are surfaced as storage errors): a request in which
\* a file operation failed is not answered with success, with "not
\* configured" or with a database connection failure.
C9_StorageErrorSurfaced ==
    \A t \in Threads :
        (pc[t] = "done" /\ ioErr[t])
        => /\ resp[t].status # 200
           /\ resp[t].code \notin {"DB_NOT_CONFIGURED", "Failed to connect to database"}
           /\ resp[t].tag # "unhealthy"

\* ------------------------------------------------------------- C10
\* C10 (structured outcome): no exception leaves a view function: every
\* request is answered by the handler itself.
C10_StructuredOutcome ==
    \A t \in Threads : pc[t] = "done" => resp[t].tag # "unhandled"

\* ------------------------------------------------------------- C11
\* C11 (idempotent key creation): in a sequential execution, the stores that
\* are constructed one after the other, the key file not being deleted, hold
\* the same valid key: a later _get_or_create_key returns what the earlier
\* one returned and derives nothing new.
C11_IdempotentKey ==
    \A i \in Insts : \A j \in Insts :
        (ipc[i] = "up" /\ ipc[j] = "up") => (key[i] = key[j] /\ ValidKey(key[i]))

\* process 2 was constructed after process 1 and holds the key process 1 derived
C11_Witness ==
    /\ ipc[1] = "up" /\ ipc[2] = "up"
    /\ key[1] = DerivedKey(1) /\ key[2] = DerivedKey(1)

\* ------------------------------------------------------------- C12
\* the positions of the calls of op in the request of thread t
At(t, op) == {j \in DOMAIN calls[t] : calls[t][j].op = op}

Rejected(t) ==
    /\ kind[t] = "configure"
    /\ \/ resp[t] = Resp(400, "error", "Missing required fields")
       \/ "connect_failed" \in Ops(t)

\* C13 (a rejected configure request changes nothing): in a sequential
\* execution, no step of a configure request up to its connection test, and
\* no step of a request that is rejected for a missing field or a failed
\* connection test, changes the configuration file or the key file, and
\* load_config returns after the step what it returned before it.
C13_RejectedChangesNothing ==
    [][\A t \in Threads :
          ((kind'[t] = "configure" /\ pc'[t] = "test") \/ Rejected(t)') =>
              /\ cfgFile' = cfgFile
              /\ keyFile' = keyFile
              /\ load_config(key'[InstOf(t)], cfgFile', denied')
                    = load_config(key[InstOf(t)], cfgFile, denied)]_vars

\* a request with another record was rejected at the connection test, and the
\* store still returns the record saved before it
C13_Witness ==
    \E t \in Threads :
        /\ pc[t] = "done" /\ Rejected(t) /\ "connect_failed" \in Ops(t)
        /\ resp[t] = Resp(400, "error", "Failed to connect to database")
        /\ lastSaved # None /\ lastSaved # testCfg[t]
        /\ load_config(key[InstOf(t)], cfgFile, FALSE) = lastSaved

\* ------------------------------------------------------------- C14
\* C14 (a failed save keeps the previous record): when the save_config of a
\* configure request has started and the request ends without success, the
\* store returns the record it returned before the save started.
C14_FailedSaveKeepsRecord ==
    \A t \in Threads :
        (pc[t] = "done" /\ kind[t] = "configure" /\ "save_config" \in Ops(t)
            /\ resp[t].status # 200)
        => load_config(key[InstOf(t)], cfgFile, FALSE) = oldCfg[t]

\* ------------------------------------------------------------- C15
\* C15 (key agreement across store instances): once every process has
\* finished constructing its DatabaseConfig, whatever the interleaving of
\* the constructions, each of them holds the bytes of the key file, and so
\* reads the record any of them has saved.
C15_KeyAgreement ==
    (\A i \in Insts : ipc[i] \notin {"new", "derive", "write"})
    => \A i \in Insts :
        /\ ipc[i] = "up"
        /\ key[i] = keyFile.bytes
        /\ \A j \in Insts :
            load_config(key[i], cfgFile, FALSE) = load_config(key[j], cfgFile, FALSE)

\* ------------------------------------------------------------- C16
\* C16 (the connection helper cleans up on every path): when a request is
\* answered, every engine it created has been disposed, every connection it
\* opened has been closed once, and no error of the cleanup code has taken
\* the place of a connection error.
C16_ConnectionCleanup ==
    \A t \in Threads :
        pc[t] = "done" =>
            /\ Cardinality(At(t, "dispose")) = Cardinality(At(t, "create_engine"))
            /\ Cardinality(At(t, "close")) = Cardinality(At(t, "connect"))
            /\ resp[t].code # "UnboundLocalError"

====
